---- MODULE Spec2Model ----
(***************************************************************************)
(* Model of App-Starter/app_completed.py ("The Outlier Excluder"):         *)
(*   load_data      builds the ACPH table from the policy book and the     *)
(*                  claims transactions, once, at start-up;                *)
(*   server         the reactive graph: filtered_data, exclusion_grid,     *)
(*                  fitted_curve, main_plot, params_table and save.        *)
(* Data frames are sequences of records; a group_by is the set of its      *)
(* keys; numbers produced by a float division are exact rationals, or one  *)
(* of the two non-finite floats a division by zero produces.               *)
(***************************************************************************)
EXTENDS Integers, Sequences, FiniteSets, TLC

VARIABLES
    fs,               \* the three directories load_data searches, with their parquet files
    pc,               \* "boot" before load_data ran, then "running" or "crashed"
    df_acph,          \* the module-level ACPH table
    product,          \* input.product()
    selected_rows,    \* input.exclusion_grid_selected_rows()
    grid,             \* output exclusion_grid
    fitted,           \* cached value of the reactive.Calc fitted_curve
    plot,             \* output main_plot
    table,            \* output params_table
    assumptions,      \* the file assumptions.json
    notification      \* what the last click on save_btn showed

vars == <<fs, pc, df_acph, product, selected_rows, grid, fitted, plot, table,
          assumptions, notification>>

(* ---------------------------- bounds ---------------------------------- *)

\* policies in a generated policy book
MaxPolicies == 2
\* transactions in a generated claims file
MaxClaims == 2
\* rows the analyst selects in the grid at once
MaxSelected == 1

(* ------------------------- program constants --------------------------- *)

\* choices of the input_select "product"
Products == {"Detached", "Semi-detached", "Flat", "Social Housing"}

\* the horizon of the pattern: DevYear <= 10
Horizon == 10

\* the least number of pattern points the solver is given
MinPoints == 3

\* possible_paths has three entries: ".", "..", "../.."
NumPaths == 3

(* ------------------------- numbers ------------------------------------- *)

RECURSIVE GCD(_, _)
GCD(a, b) == IF b = 0 THEN a ELSE GCD(b, a % b)

Abs(n) == IF n < 0 THEN -n ELSE n

\* a finite float, kept exact: num/den in lowest terms, den > 0
Rat(n, d) ==
    LET g == GCD(Abs(n), d)
    IN  [k |-> "fin", num |-> n \div g, den |-> d \div g]

Inf == [k |-> "inf", num |-> 1, den |-> 0]
NaN == [k |-> "nan", num |-> 0, den |-> 0]

IsFinite(v) == v.k = "fin"

\* Polars' true division of two non-negative numbers: x/0 is inf, 0/0 is NaN
Divide(a, b) ==
    IF b # 0 THEN Rat(a, b)
    ELSE IF a = 0 THEN NaN ELSE Inf

RatAdd(a, b) == Rat(a.num * b.den + b.num * a.den, a.den * b.den)

\* float addition of non-negative values
FloatAdd(a, b) ==
    IF a.k = "nan" \/ b.k = "nan" THEN NaN
    ELSE IF a.k = "inf" \/ b.k = "inf" THEN Inf
    ELSE RatAdd(a, b)

\* float division by a positive count
FloatDivN(a, n) == IF IsFinite(a) THEN Rat(a.num, a.den * n) ELSE a

RECURSIVE SumInt(_, _)
\* sum of f[x] over the finite set S
SumInt(S, f) ==
    IF S = {} THEN 0
    ELSE LET x == CHOOSE y \in S : TRUE IN f[x] + SumInt(S \ {x}, f)

RECURSIVE SumFloat(_)
\* float sum of the values of a sequence
SumFloat(s) == IF s = <<>> THEN Rat(0, 1) ELSE FloatAdd(Head(s), SumFloat(Tail(s)))

(* ------------------------- data frames --------------------------------- *)

\* alphabetical order of the product names, as a string sort gives it
ProductRank(p) ==
    CASE p = "Detached" -> 1
      [] p = "Flat" -> 2
      [] p = "Semi-detached" -> 3
      [] p = "Social Housing" -> 4

\* the rows of a frame whose mask entry is TRUE, in the frame's order
FilterMask(df, mask) ==
    LET idx == {i \in 1..Len(df) : mask[i]}
    IN  [n \in 1..Cardinality(idx) |->
            df[CHOOSE i \in idx : Cardinality({j \in idx : j < i}) = n - 1]]

\* a set of rows as a frame in the order given by key, a function that maps
\* each row to its rank in the sort (distinct rows have distinct ranks)
SortRows(S, key) ==
    [n \in 1..Cardinality(S) |->
        CHOOSE r \in S : Cardinality({q \in S : key[q] < key[r]}) = n - 1]

\* a before b in the order of (ProductType, CohortYear, DevYear)
AcphLess(a, b) ==
    \/ ProductRank(a.ProductType) < ProductRank(b.ProductType)
    \/ /\ a.ProductType = b.ProductType
       /\ \/ a.CohortYear < b.CohortYear
          \/ a.CohortYear = b.CohortYear /\ a.DevYear < b.DevYear

\* the rank of each row of S in the sort by (ProductType, CohortYear, DevYear)
AcphRank(S) == [r \in S |-> Cardinality({q \in S : AcphLess(q, r)})]

\* the rank of each row of S in the sort by DevYear
DevYearRank(S) == [r \in S |-> r.DevYear]

Range(s) == {s[i] : i \in 1..Len(s)}

(* ------------------------- load_data ----------------------------------- *)

\* a parquet file: absent, or a set of rows
NoFile == [present |-> FALSE, rows |-> {}]
File(rows) == [present |-> TRUE, rows |-> rows]

\* 1. Exposure: TotalHomes per CohortYear
Exposure(df_policies) ==
    {[CohortYear |-> c,
      TotalHomes |-> SumInt({p \in df_policies : p.CohortYear = c},
                            [p \in df_policies |-> p.NumHomes])] :
        c \in {p.CohortYear : p \in df_policies}}

\* the claims joined to the policies on PolicyID, with DevYear computed
ClaimsJoined(df_policies, df_claims) ==
    {[ClaimID |-> c.ClaimID, PolicyID |-> p.PolicyID,
      CohortYear |-> p.CohortYear, ProductType |-> p.ProductType,
      DevYear |-> c.ReportYear - p.CohortYear,
      PaymentAmount |-> c.PaymentAmount] :
        <<c, p>> \in {cp \in df_claims \X df_policies : cp[1].PolicyID = cp[2].PolicyID}}

BucketOf(r) ==
    [CohortYear |-> r.CohortYear, DevYear |-> r.DevYear, ProductType |-> r.ProductType]

\* 2. Claims Dev: TotalClaims per (CohortYear, DevYear, ProductType)
ClaimsDev(df_policies, df_claims) ==
    LET joined == ClaimsJoined(df_policies, df_claims)
    IN  {[CohortYear |-> b.CohortYear, DevYear |-> b.DevYear,
          ProductType |-> b.ProductType,
          TotalClaims |-> SumInt({j \in joined : BucketOf(j) = b},
                                 [j \in joined |-> j.PaymentAmount])] :
            b \in {BucketOf(j) : j \in joined}}

\* 3. ACPH: Claims Dev joined to Exposure on CohortYear, divided, sorted
Acph(df_dev, df_exposure) ==
    LET rows ==
             {[CohortYear |-> de[1].CohortYear, DevYear |-> de[1].DevYear,
               ProductType |-> de[1].ProductType,
               TotalClaims |-> de[1].TotalClaims, TotalHomes |-> de[2].TotalHomes,
               ACPH |-> Divide(de[1].TotalClaims, de[2].TotalHomes)] :
                 de \in {x \in df_dev \X df_exposure : x[1].CohortYear = x[2].CohortYear}}
    IN  SortRows(rows, AcphRank(rows))

\* the first of possible_paths that holds Policy_Book.parquet, 0 when none does
DataDir(files) ==
    LET found == {d \in 1..NumPaths : files[d].policies.present}
    IN  IF found = {} THEN 0 ELSE CHOOSE d \in found : \A e \in found : d <= e

\* the table load_data returns, or the exception read_parquet raises
load_data(files) ==
    LET data_dir == DataDir(files)
    IN  IF data_dir = 0 THEN [kind |-> "ok", df |-> <<>>]
        ELSE IF ~files[data_dir].claims.present THEN [kind |-> "raise", df |-> <<>>]
        ELSE [kind |-> "ok",
              df |-> Acph(ClaimsDev(files[data_dir].policies.rows,
                                    files[data_dir].claims.rows),
                          Exposure(files[data_dir].policies.rows))]

(* ------------------------- input files --------------------------------- *)

Policy(id, cohort, ptype, homes) ==
    [PolicyID |-> id, CohortYear |-> cohort, ProductType |-> ptype, NumHomes |-> homes]

Claim(id, policy, year, amount) ==
    [ClaimID |-> id, PolicyID |-> policy, ReportYear |-> year, PaymentAmount |-> amount]

\* the two files placed in directories pdir and cdir of possible_paths (0: nowhere)
Place(policies, pdir, claims, cdir) ==
    [d \in 1..NumPaths |->
        [policies |-> IF d = pdir THEN File(policies) ELSE NoFile,
         claims   |-> IF d = cdir THEN File(claims) ELSE NoFile]]

\* every policy book of at most MaxPolicies policies over a small attribute range
PolicyBooks ==
    UNION {{{Policy(i, f[i][1], f[i][2], f[i][3]) : i \in ids} :
                f \in [ids -> {2020, 2021} \X {"Detached", "Flat"} \X {0, 2}]} :
           ids \in SUBSET (1..MaxPolicies)}

\* every claims file of at most MaxClaims transactions over a small attribute range
ClaimsFiles ==
    UNION {{{Claim(i, f[i][1], f[i][2], f[i][3]) : i \in ids} :
                f \in [ids -> (1..MaxPolicies) \X {2020, 2022} \X {0, 3}]} :
           ids \in SUBSET (1..MaxClaims)}

SamplePolicies == {Policy(1, 2020, "Flat", 2), Policy(2, 2021, "Detached", 2)}
SampleClaims == {Claim(1, 1, 2020, 3), Claim(2, 2, 2022, 3)}

\* the inputs load_data is checked on: every generated data set in the working
\* directory, and one data set in every placement of the two files
LoadInputs ==
    {Place(b, 1, c, 1) : <<b, c>> \in PolicyBooks \X ClaimsFiles}
    \cup {Place(SamplePolicies, pd, SampleClaims, cd) :
            <<pd, cd>> \in (0..NumPaths) \X (0..NumPaths)}

\* the book of the running application: Detached has five rows (DevYear -1, 1,
\* 10, 11 for cohort 2020, one bucket fed by two payments; DevYear 1 for cohort
\* 2021), Flat has one, Semi-detached and Social Housing have none
MainPolicies ==
    {Policy(1, 2020, "Detached", 2), Policy(2, 2021, "Detached", 4),
     Policy(3, 2020, "Flat", 2)}

MainClaims ==
    {Claim(1, 1, 2019, 10), Claim(2, 1, 2030, 20), Claim(3, 1, 2021, 5),
     Claim(4, 1, 2021, 15), Claim(5, 1, 2031, 30), Claim(6, 2, 2022, 8),
     Claim(7, 3, 2020, 10)}

\* a book whose cohort 2020 sums to no homes at all
ZeroHomePolicies == {Policy(1, 2020, "Detached", 0), Policy(2, 2021, "Detached", 2)}
ZeroHomeClaims ==
    {Claim(1, 1, 2020, 10), Claim(2, 2, 2022, 4), Claim(3, 2, 2023, 6)}

\* the file systems the application is started on
AppInputs ==
    {Place(MainPolicies, 1, MainClaims, 1),
     Place(ZeroHomePolicies, 2, ZeroHomeClaims, 2),
     Place(MainPolicies, 0, MainClaims, 1),
     Place(MainPolicies, 1, MainClaims, 0)}

(* ------------------------- the reactive graph -------------------------- *)

\* an output or a calc the reactive graph has invalidated and not yet re-run
Invalid == [kind |-> "invalid"]

\* reactive.Calc filtered_data: the rows of the selected product
filtered_data(df, selected_product) ==
    IF df = <<>> THEN <<>>
    ELSE FilterMask(df, [i \in 1..Len(df) |-> df[i].ProductType = selected_product])

\* include_mask[list(selected_indices)] = False and iloc[list(selected_indices)]
\* raise IndexError on a position that is not a row of the frame
OutOfBounds(df, selected_indices) == \E i \in selected_indices : i >= Len(df)

\* include_mask with the selected positions taken as one-based
include_mask_OneBased(df, selected_indices) ==
    [i \in 1..Len(df) |-> i \notin selected_indices]

\* include_mask of fitted_curve: all True, then False at the selected positions
include_mask(df, selected_indices) ==
    [i \in 1..Len(df) |-> (i - 1) \notin selected_indices]

\* df_clean of fitted_curve
CleanRows(df, selected_indices) == FilterMask(df, include_mask(df, selected_indices))

\* pl.col("ACPH").mean() over the rows of one group
Mean(values) == FloatDivN(SumFloat(values), Len(values))

\* group_by("DevYear").agg(mean): one row per DevYear of the frame
GroupMean(df_clean) ==
    {[DevYear |-> d,
      AvgACPH |-> Mean(LET rows == FilterMask(df_clean,
                                      [i \in 1..Len(df_clean) |-> df_clean[i].DevYear = d])
                       IN  [i \in 1..Len(rows) |-> rows[i].ACPH])] :
        d \in {r.DevYear : r \in Range(df_clean)}}

\* df_pattern without the cut at the horizon
Pattern_NoHorizon(df_clean) ==
    SortRows(GroupMean(df_clean), DevYearRank(GroupMean(df_clean)))

\* df_pattern of fitted_curve: grouped, sorted by DevYear, cut at the horizon
Pattern(df_clean) ==
    LET grouped == GroupMean(df_clean)
        sorted == SortRows(grouped, DevYearRank(grouped))
    IN  FilterMask(sorted, [i \in 1..Len(sorted) |-> sorted[i].DevYear <= Horizon])

\* what the least-squares solver may do on one call
Outcomes == {"converged", "failed"}

\* scipy's curve_fit: it raises on a non-finite input (check_finite), and
\* otherwise converges or fails (maxfev reached, no optimal parameters)
curve_fit(y_data, outcome) ==
    IF \E i \in 1..Len(y_data) : ~IsFinite(y_data[i]) THEN "failed" ELSE outcome

FitResult(kind, df_clean, df_pattern, solver) ==
    [kind |-> kind, clean |-> df_clean, pattern |-> df_pattern, solver |-> solver]

\* curve_fit called without the try/except: its exception leaves fitted_curve
FitOrRaise(df_clean, df_pattern, outcome) ==
    LET solver == curve_fit([i \in 1..Len(df_pattern) |-> df_pattern[i].AvgACPH],
                            outcome)
    IN  IF solver = "converged"
        THEN FitResult("params", df_clean, df_pattern, solver)
        ELSE FitResult("raise", df_clean, df_pattern, solver)

\* the try/except around curve_fit: popt when it returns, None when it raises
FitOrNone(df_clean, df_pattern, outcome) ==
    LET solver == curve_fit([i \in 1..Len(df_pattern) |-> df_pattern[i].AvgACPH],
                            outcome)
    IN  IF solver = "converged"
        THEN FitResult("params", df_clean, df_pattern, solver)
        ELSE FitResult("none", df_clean, df_pattern, solver)

\* the test with the threshold one too low
TooFewPoints_OffByOne(df_pattern) == Len(df_pattern) < MinPoints - 1

\* if df_pattern.height < 3: return None
TooFewPoints(df_pattern) == Len(df_pattern) < MinPoints

\* reactive.Calc fitted_curve: "params" for popt, "none" for None, "raise" for
\* an exception that leaves the calc
fitted_curve(df, selected_indices, outcome) ==
    IF df = <<>> THEN FitResult("none", <<>>, <<>>, "not_invoked")
    ELSE IF OutOfBounds(df, selected_indices)
    THEN FitResult("raise", <<>>, <<>>, "not_invoked")
    ELSE LET df_clean == CleanRows(df, selected_indices)
             df_pattern == Pattern(df_clean)
         IN  IF TooFewPoints(df_pattern)
             THEN FitResult("none", df_clean, df_pattern, "not_invoked")
             ELSE FitOrNone(df_clean, df_pattern, outcome)

\* the Status column main_plot adds to the frame
StatusColumn(df, selected_indices) ==
    [i \in 1..Len(df) |-> IF (i - 1) \in selected_indices THEN "Excluded" ELSE "Included"]

\* @render_widget main_plot, given what its call of fitted_curve() returns
main_plot(df, selected_indices, popt) ==
    IF df = <<>> THEN [kind |-> "nodata", status |-> <<>>, curve |-> FALSE]
    ELSE IF OutOfBounds(df, selected_indices) \/ popt.kind = "raise"
    THEN [kind |-> "raise", status |-> <<>>, curve |-> FALSE]
    ELSE [kind |-> "figure", status |-> StatusColumn(df, selected_indices),
          curve |-> popt.kind = "params"]

\* @render.table params_table, given what its call of fitted_curve() returns
params_table(popt) ==
    IF popt.kind = "raise" THEN [kind |-> "raise"]
    ELSE IF popt.kind = "none" THEN [kind |-> "Fit Failed"]
    ELSE [kind |-> "Parameter"]

(* ------------------------- assumptions.json ---------------------------- *)

NoAssumptions == [state |-> "absent", products |-> <<>>]

\* json.dump(data, f): the whole document written. The mapping holds string
\* keys, lists and integers only, which JSON writes and reads back as they are,
\* so the document is kept as the mapping it encodes
json_dump(data) == [state |-> "complete", products |-> data]

\* what open(path, 'w') followed by a write that fails leaves on disk: the old
\* content is gone and the new document is cut short
Truncated == [state |-> "partial", products |-> <<>>]

\* json.load(f) parses a complete document only
json_load(file) ==
    IF file.state = "complete" THEN [kind |-> "ok", products |-> file.products]
    ELSE [kind |-> "raise", products |-> <<>>]

\* excluded_points with the selected positions taken as one-based
excluded_points_OneBased(df, selected_indices) ==
    LET excluded_rows ==
            FilterMask(df, [i \in 1..Len(df) |-> i \in selected_indices])
    IN  [i \in 1..Len(excluded_rows) |->
            [CohortYear |-> excluded_rows[i].CohortYear,
             DevYear |-> excluded_rows[i].DevYear]]

\* excluded_points of save: one pair per row of the view at a selected position
excluded_points(df, selected_indices) ==
    LET excluded_rows ==
            FilterMask(df, [i \in 1..Len(df) |-> (i - 1) \in selected_indices])
    IN  [i \in 1..Len(excluded_rows) |->
            [CohortYear |-> excluded_rows[i].CohortYear,
             DevYear |-> excluded_rows[i].DevYear]]

\* the mapping rebuilt with the current product alone
UpdateProducts_Overwrite(products, prod, points) == [q \in {prod} |-> points]

\* data["products"][prod]["excluded_points"] = excluded_points
UpdateProducts(products, prod, points) ==
    [q \in DOMAIN products \cup {prod} |-> IF q = prod THEN points ELSE products[q]]

NoNotification == [kind |-> "none", n |-> 0, prod |-> ""]

(* ------------------------- actions ------------------------------------- *)

InitOn(inputs) ==
    /\ fs \in inputs
    /\ pc = "boot"
    /\ df_acph = <<>>
    /\ product = "Detached"
    /\ selected_rows = {}
    /\ grid = Invalid
    /\ fitted = Invalid
    /\ plot = Invalid
    /\ table = Invalid
    /\ assumptions = NoAssumptions
    /\ notification = NoNotification

Init == InitOn(AppInputs)

InitLoad == InitOn(LoadInputs)

\* df_acph = load_data(), at import
Load ==
    /\ pc = "boot"
    /\ LET r == load_data(fs)
       IN  /\ pc' = IF r.kind = "ok" THEN "running" ELSE "crashed"
           /\ df_acph' = r.df
    /\ UNCHANGED <<fs, product, selected_rows, grid, fitted, plot, table,
                   assumptions, notification>>

\* the session has flushed: every output is up to date
Quiescent ==
    /\ pc = "running"
    /\ grid # Invalid
    /\ plot # Invalid
    /\ table # Invalid

\* the analyst picks another product
SelectProduct(p) ==
    /\ Quiescent
    /\ p # product
    /\ product' = p
    /\ grid' = Invalid
    /\ fitted' = Invalid
    /\ plot' = Invalid
    /\ table' = Invalid
    /\ UNCHANGED <<fs, pc, df_acph, selected_rows, assumptions, notification>>

\* the analyst changes the selection of rows of the grid on screen
SelectRows(S) ==
    /\ Quiescent
    /\ S # selected_rows
    /\ S \subseteq 0..(grid.nrows - 1)
    /\ Cardinality(S) <= MaxSelected
    /\ selected_rows' = S
    /\ fitted' = Invalid
    /\ plot' = Invalid
    /\ table' = Invalid
    /\ UNCHANGED <<fs, pc, df_acph, product, grid, assumptions, notification>>

\* @render.data_frame exclusion_grid
ExclusionGrid ==
    /\ pc = "running"
    /\ grid = Invalid
    /\ grid' = [kind |-> "grid", nrows |-> Len(filtered_data(df_acph, product))]
    /\ UNCHANGED <<fs, pc, df_acph, product, selected_rows, fitted, plot, table,
                   assumptions, notification>>

\* fitted_curve(): the cached value, or the calc run now
CallFittedCurve(outcome) ==
    IF fitted # Invalid THEN fitted
    ELSE fitted_curve(filtered_data(df_acph, product), selected_rows, outcome)

\* main_plot runs; it reaches its call of fitted_curve() only past the labelling
MainPlot ==
    /\ pc = "running"
    /\ plot = Invalid
    /\ \E outcome \in Outcomes :
         LET df == filtered_data(df_acph, product)
             called == df # <<>> /\ ~OutOfBounds(df, selected_rows)
             popt == CallFittedCurve(outcome)
         IN  /\ plot' = main_plot(df, selected_rows, popt)
             /\ fitted' = IF called THEN popt ELSE fitted
    /\ UNCHANGED <<fs, pc, df_acph, product, selected_rows, grid, table,
                   assumptions, notification>>

\* params_table runs
ParamsTable ==
    /\ pc = "running"
    /\ table = Invalid
    /\ \E outcome \in Outcomes :
         LET popt == CallFittedCurve(outcome)
         IN  /\ table' = params_table(popt)
             /\ fitted' = popt
    /\ UNCHANGED <<fs, pc, df_acph, product, selected_rows, grid, plot,
                   assumptions, notification>>

\* what the file system does to the write of save
IoOutcomes == {"ok", "open_fails", "write_fails"}

\* the file save leaves and the notification it shows, for the file it found;
\* an exception leaves save before ui.notification_show and nothing is shown
SaveResult(file, prod, df, selected_indices, io) ==
    LET loaded == IF file.state = "absent"
                  THEN [kind |-> "ok", products |-> <<>>]
                  ELSE json_load(file)
        points == excluded_points(df, selected_indices)
        data   == UpdateProducts(loaded.products, prod, points)
    IN  IF loaded.kind = "raise" THEN [file |-> file, notification |-> NoNotification]
        ELSE IF io = "open_fails" THEN [file |-> file, notification |-> NoNotification]
        ELSE IF io = "write_fails"
        THEN [file |-> Truncated, notification |-> NoNotification]
        ELSE [file |-> json_dump(data),
              notification |-> [kind |-> "success", n |-> Len(points), prod |-> prod]]

\* a click on save_btn
Save(io) ==
    /\ Quiescent
    /\ LET r == SaveResult(assumptions, product, filtered_data(df_acph, product),
                           selected_rows, io)
       IN  /\ assumptions' = r.file
           /\ notification' = r.notification
    /\ UNCHANGED <<fs, pc, df_acph, product, selected_rows, grid, fitted, plot, table>>

Next ==
    \/ Load
    \/ \E p \in Products : SelectProduct(p)
    \/ \E S \in SUBSET (0..(Len(df_acph) - 1)) : SelectRows(S)
    \/ ExclusionGrid
    \/ MainPlot
    \/ ParamsTable
    \/ \E io \in IoOutcomes : Save(io)

Spec == Init /\ [][Next]_vars

NextLoad == Load

SpecLoad == InitLoad /\ [][NextLoad]_vars

(* ------------------------- properties ---------------------------------- *)

\* the product-filtered, sorted view the session is looking at
View == filtered_data(df_acph, product)

\* the selected positions that are rows of the view
InRange == {i \in selected_rows : i < Len(View)}

\* the (CohortYear, DevYear) pair of a row
PairOf(r) == [CohortYear |-> r.CohortYear, DevYear |-> r.DevYear]

\* C1: a save whose write is not cut short, performed while product P is
\* selected, leaves the entry of every other product that had one exactly as
\* it was in the persisted record.
C1_SaveKeepsOtherProducts ==
    [][\A io \in IoOutcomes \ {"write_fails"} :
          Save(io) =>
              \A q \in DOMAIN assumptions.products \ {product} :
                  /\ assumptions'.state = "complete"
                  /\ q \in DOMAIN assumptions'.products
                  /\ assumptions'.products[q] = assumptions.products[q]]_vars

\* a save for one product succeeded while another product holds a saved list
C1_Witness ==
    /\ notification.kind = "success"
    /\ assumptions.state = "complete"
    /\ \E q \in DOMAIN assumptions.products :
          q # notification.prod /\ Len(assumptions.products[q]) > 0

\* C2: after a completed save with product P and exclusion set S, the reloaded
\* record holds for P exactly the (CohortYear, DevYear) pairs of the rows of the
\* view at the positions in S, one per excluded row; with S empty P's list is
\* empty, whatever was saved for P before.
C2_SavedPairsAreExcludedRows ==
    [][(Save("ok") /\ notification'.kind = "success") =>
          LET reloaded == json_load(assumptions')
              points == reloaded.products[product]
          IN  /\ reloaded.kind = "ok"
              /\ product \in DOMAIN reloaded.products
              /\ Range(points) = {PairOf(View[i + 1]) : i \in InRange}
              /\ Len(points) = Cardinality(InRange)
              /\ notification'.n = Cardinality(InRange)
              /\ selected_rows = {} => points = <<>>]_vars

\* the row at position 1 of a five-row view was saved, and nothing else
C2_Witness ==
    /\ notification.kind = "success"
    /\ notification.prod = product
    /\ notification.n = 1
    /\ selected_rows = {1}
    /\ Len(View) = 5
    /\ assumptions.products[product] = <<PairOf(View[2])>>

\* C3: with a selected position that is no row of the view, fitted_curve and
\* main_plot complete without raising and treat only the positions in range
\* as excluded.
C3_StaleIndicesIgnored ==
    (pc = "running" /\ OutOfBounds(View, selected_rows)) =>
        /\ fitted # Invalid =>
              fitted.kind # "raise" /\ fitted.clean = CleanRows(View, InRange)
        /\ plot # Invalid =>
              /\ plot.kind # "raise"
              /\ plot.status = StatusColumn(View, InRange)
        /\ table # Invalid => table.kind # "raise"

\* the rows of the view that are not at a selected position
Kept == {View[i] : i \in {j \in 1..Len(View) : (j - 1) \notin selected_rows}}

\* C4: when the rows left after the exclusion have fewer than 3 distinct
\* DevYear values, fitted_curve returns None and the solver is not invoked.
C4_FewPointsNoFit ==
    (fitted # Invalid /\ fitted.kind # "raise"
        /\ Cardinality({r.DevYear : r \in Kept}) < 3) =>
        /\ fitted.kind = "none"
        /\ fitted.solver = "not_invoked"

\* an exclusion took a view that could be fitted down to two DevYear values
C4_Witness ==
    /\ fitted # Invalid
    /\ fitted.kind = "none"
    /\ selected_rows # {}
    /\ Cardinality({r.DevYear : r \in Range(View)}) >= 3
    /\ Cardinality({r.DevYear : r \in Kept}) = 2
    /\ table = [kind |-> "Fit Failed"]

\* the total homes of a cohort in the policy book load_data read
HomesOf(cohort) ==
    LET book == fs[DataDir(fs)].policies.rows
    IN  SumInt({p \in book : p.CohortYear = cohort}, [p \in book |-> p.NumHomes])

\* C5: the ACPH table has no row for a cohort whose homes sum to 0, and the
\* ACPH of every row is its TotalClaims over the TotalHomes of its cohort.
C5_NoRowForZeroHomes ==
    (pc = "running" /\ DataDir(fs) # 0) =>
        \A i \in 1..Len(df_acph) :
            /\ HomesOf(df_acph[i].CohortYear) # 0
            /\ IsFinite(df_acph[i].ACPH)
            /\ df_acph[i].ACPH.num * HomesOf(df_acph[i].CohortYear)
                   = df_acph[i].ACPH.den * df_acph[i].TotalClaims

\* C6: when the policy book or the claims transactions are in none of the
\* directories, load_data returns an empty table and does not raise.
C6_MissingDataGivesEmptyTable ==
    (pc # "boot" /\ \/ \A d \in 1..NumPaths : ~fs[d].policies.present
                    \/ \A d \in 1..NumPaths : ~fs[d].claims.present) =>
        /\ pc = "running"
        /\ df_acph = <<>>

\* C7: a save whose write fails once the file is open for writing leaves every
\* other product's entry in the file intact and readable, and a save reports
\* success only when the full mapping was written.
C7_FailedWriteKeepsRecord ==
    [][/\ Save("write_fails") =>
            \A q \in DOMAIN assumptions.products \ {product} :
                /\ json_load(assumptions').kind = "ok"
                /\ q \in DOMAIN assumptions'.products
                /\ assumptions'.products[q] = assumptions.products[q]
       /\ \A io \in IoOutcomes :
            (Save(io) /\ notification'.kind = "success") =>
                assumptions'.state = "complete"]_vars

\* C8: when the solver was invoked and failed, fitted_curve returns None, no
\* exception leaves it, main_plot draws no fitted curve and params_table shows
\* the status 'Fit Failed'.
C8_FitFailureIsAbsent ==
    (fitted # Invalid /\ fitted.solver = "failed") =>
        /\ fitted.kind = "none"
        /\ plot # Invalid => plot.kind = "figure" /\ ~plot.curve
        /\ table # Invalid => table = [kind |-> "Fit Failed"]

\* the solver failed on three pattern points or more, and both outputs show it
C8_Witness ==
    /\ fitted # Invalid
    /\ fitted.solver = "failed"
    /\ Len(fitted.pattern) >= 3
    /\ plot # Invalid /\ plot.kind = "figure"
    /\ table = [kind |-> "Fit Failed"]

RECURSIVE ProductInt(_, _)
\* product of f[x] over the finite set S
ProductInt(S, f) ==
    IF S = {} THEN 1
    ELSE LET x == CHOOSE y \in S : TRUE IN f[x] * ProductInt(S \ {x}, f)

\* p.AvgACPH is the mean of the ACPH of the rows R, all finite: with L the
\* product of their denominators, avg * |R| * L = sum of num * L / den
IsMeanOf(avg, R) ==
    LET L == ProductInt(R, [r \in R |-> r.ACPH.den])
        total == SumInt(R, [r \in R |-> r.ACPH.num * (L \div r.ACPH.den)])
    IN  /\ IsFinite(avg)
        /\ avg.num * Cardinality(R) * L = avg.den * total

\* C9: the pattern of a clean row set has one point per distinct DevYear <= 10
\* of the clean rows, negative ones included, none above 10, each the mean of
\* ACPH over the clean rows of that DevYear, in strictly increasing DevYear
\* order; the solver is invoked exactly when that truncated pattern has 3
\* points or more.
C9_PatternOfCleanRows ==
    (fitted # Invalid /\ fitted.kind # "raise" /\ View # <<>>) =>
        LET clean == Range(fitted.clean)
            pattern == fitted.pattern
        IN  /\ {pattern[i].DevYear : i \in 1..Len(pattern)}
                   = {r.DevYear : r \in {c \in clean : c.DevYear <= 10}}
            /\ \A i \in 1..Len(pattern), j \in 1..Len(pattern) :
                   i < j => pattern[i].DevYear < pattern[j].DevYear
            /\ \A i \in 1..Len(pattern) :
                   LET R == {r \in clean : r.DevYear = pattern[i].DevYear}
                   IN  IF \A r \in R : IsFinite(r.ACPH)
                       THEN IsMeanOf(pattern[i].AvgACPH, R)
                       ELSE ~IsFinite(pattern[i].AvgACPH)
            /\ (fitted.solver # "not_invoked") <=> (Len(pattern) >= 3)

\* a pattern with a negative DevYear, a DevYear averaged over two cohorts and
\* DevYear 10, from clean rows that also hold DevYear 11
C9_Witness ==
    /\ fitted # Invalid
    /\ fitted.kind # "raise"
    /\ \E r \in Range(fitted.clean) : r.DevYear > 10
    /\ \E i \in 1..Len(fitted.pattern) : fitted.pattern[i].DevYear < 0
    /\ \E i \in 1..Len(fitted.pattern) : fitted.pattern[i].DevYear = 10
    /\ \E i \in 1..Len(fitted.pattern) :
          Cardinality({r \in Range(fitted.clean) :
                          r.DevYear = fitted.pattern[i].DevYear}) = 2

\* C10: the clean subset and the pattern are those of the current product and
\* exclusion set, whatever edits came before: with the empty mask the clean
\* subset is the whole view and the pattern is the pattern of the whole view;
\* and the rows main_plot tags 'Excluded' are exactly the rows of the view
\* missing from the clean subset.
C10_CleanFollowsCurrentMask ==
    (fitted # Invalid /\ fitted.kind # "raise" /\ View # <<>>) =>
        /\ Range(fitted.clean) = Kept
        /\ Len(fitted.clean) = Cardinality(Kept)
        /\ fitted.pattern = Pattern(fitted.clean)
        /\ selected_rows = {} =>
              fitted.clean = View /\ fitted.pattern = Pattern(View)
        /\ (plot # Invalid /\ plot.kind = "figure") =>
              /\ {View[i] : i \in {j \in 1..Len(View) : plot.status[j] = "Excluded"}}
                     = Range(View) \ Range(fitted.clean)
              /\ {View[i] : i \in {j \in 1..Len(View) : plot.status[j] = "Included"}}
                     = Range(fitted.clean)

\* the mask is empty again after an exclusion was made and saved for the
\* product on screen, and the fit and the plot are up to date
C10_Witness ==
    /\ selected_rows = {}
    /\ notification.kind = "success"
    /\ notification.prod = product
    /\ notification.n > 0
    /\ fitted # Invalid
    /\ fitted.clean = View
    /\ plot # Invalid /\ plot.kind = "figure"
    /\ Len(View) = 5

====
